---------------------------- MODULE Spec2Model ----------------------------
(***************************************************************************)
(* Model of the BMP3XX driver (adafruit_bmp3xx.py).                        *)
(*                                                                         *)
(* The driver is a single-threaded client of a register device reached     *)
(* over a shared bus.  Every public operation is a short program of        *)
(* register transactions; a register transaction is one call of an         *)
(* adapter's _read_register / _write_register_byte, which acquires the     *)
(* bus, transfers, and releases the bus.  The model steps through a        *)
(* transaction in phases so that the device (conversions completing) and   *)
(* other bus users can interleave exactly where the code lets them.        *)
(*                                                                         *)
(* Floating-point compensation is not modelled: a measurement's result is  *)
(* the opaque token "value", the calibration block an opaque token.        *)
(***************************************************************************)
EXTENDS Integers, Sequences, FiniteSets, TLC

(* ------------------------------ bounds ---------------------------------- *)
\* Largest number of not-ready status polls explored in one measurement.
MaxPolls == 3

(* ------------------------- program constants ---------------------------- *)
BMP388_CHIP_ID == 80
BMP390_CHIP_ID == 96
REGISTER_CHIPID == 0
REGISTER_STATUS == 3
REGISTER_PRESSUREDATA == 4
REGISTER_CONTROL == 27
REGISTER_OSR == 28
REGISTER_CONFIG == 31
REGISTER_CAL_DATA == 49
REGISTER_CMD == 126
OSR_SETTINGS == <<1, 2, 4, 8, 16, 32>>
IIR_SETTINGS == <<0, 2, 4, 8, 16, 32, 64, 128>>
\* literals of the code
CMD_SOFTRESET == 182
CTRL_FORCED == 19
STATUS_READY_MASK == 96
CAL_LENGTH == 21
DATA_LENGTH == 6

(* --------------------------- integer helpers ---------------------------- *)
Bit(x, i) == (x \div (2 ^ i)) % 2
\* Python's & and | on the ints that occur here, all in 0..255
BitAnd(a, b) ==
    Bit(a, 0) * Bit(b, 0) + 2 * Bit(a, 1) * Bit(b, 1) + 4 * Bit(a, 2) * Bit(b, 2)
    + 8 * Bit(a, 3) * Bit(b, 3) + 16 * Bit(a, 4) * Bit(b, 4) + 32 * Bit(a, 5) * Bit(b, 5)
    + 64 * Bit(a, 6) * Bit(b, 6) + 128 * Bit(a, 7) * Bit(b, 7)
BitOr(a, b) == a + b - BitAnd(a, b)
Shl(x, n) == x * (2 ^ n)
Shr(x, n) == x \div (2 ^ n)

Range(t) == {t[i] : i \in 1..Len(t)}
\* tuple.index(v): zero-based position of the first element equal to v
\* (-1 where Python raises ValueError: the setters test membership first)
TupleIndex(t, v) ==
    IF v \in Range(t)
    THEN (CHOOSE i \in 1..Len(t) : t[i] = v /\ \A j \in 1..(i - 1) : t[j] # v) - 1
    ELSE -1
\* tuple[i], zero-based, for i >= 0; outside the tuple Python raises IndexError
TupleHas(t, i) == i >= 0 /\ i < Len(t)
TupleAt(t, i) == t[i + 1]

(* --------------------- pure parts of the handlers ----------------------- *)
\* (variant: the field is masked with 0x03)
PressureOsrIndex_mask3(osr) == BitAnd(osr, 3)
\* pressure_oversampling getter: index decoded from the OSR byte
PressureOsrIndex(osr) == BitAnd(osr, 7)
\* temperature_oversampling getter
TemperatureOsrIndex(osr) == BitAnd(Shr(osr, 3), 7)
\* filter_coefficient getter
FilterIndex(config) == BitAnd(Shr(config, 1), 7)

\* pressure_oversampling setter: new_setting
PressureOsrMerge(old, oversample) ==
    BitOr(BitAnd(old, 248), TupleIndex(OSR_SETTINGS, oversample))
\* (variant: the mask 0xC0 also clears the pressure field)
TemperatureOsrMerge_clears(old, oversample) ==
    BitOr(BitAnd(old, 192), Shl(TupleIndex(OSR_SETTINGS, oversample), 3))
\* (variant: the old temperature field is not cleared before the merge)
TemperatureOsrMerge_nomask(old, oversample) ==
    BitOr(old, Shl(TupleIndex(OSR_SETTINGS, oversample), 3))
\* temperature_oversampling setter: new_setting
TemperatureOsrMerge(old, oversample) ==
    BitOr(BitAnd(old, 199), Shl(TupleIndex(OSR_SETTINGS, oversample), 3))
\* (variant: the index is written unshifted)
FilterByte_noshift(coef) == TupleIndex(IIR_SETTINGS, coef)
\* filter_coefficient setter: the byte written (CONFIG is not read)
FilterByte(coef) == Shl(TupleIndex(IIR_SETTINGS, coef), 1)

\* (variant: only the BMP388 is accepted)
ChipIdAccepted_388only(chip_id) == chip_id = BMP388_CHIP_ID
\* __init__: the identity check
ChipIdAccepted(chip_id) == chip_id \in {BMP388_CHIP_ID, BMP390_CHIP_ID}
\* (variant: one ready bit is enough)
ConversionsComplete_either(status) == BitAnd(status, STATUS_READY_MASK) # 0
\* (variant: the status byte is compared unmasked)
ConversionsComplete_nomask(status) == status = STATUS_READY_MASK
\* _read: the loop condition's negation, i.e. the poll loop exits
ConversionsComplete(status) == BitAnd(status, STATUS_READY_MASK) = STATUS_READY_MASK


(* ------------------------------- state ---------------------------------- *)
VARIABLES
    adapter,    \* "none" | "I2C" | "SPI": the class of the instance
    pc,         \* where the driver is: "new", "dead", "idle" or a stage of an operation
    ph,         \* phase of the pending transaction: "none" | "call" | "held" | "ret"
    req,        \* the pending transaction <<kind, register, length or value>>
    rd,         \* what the read transaction just made returned, else 0
    op,         \* the public operation running, or the last one run
    arg,        \* its argument (setters), else 0
    outcome,    \* "none" | "running" | "ok" | the name of the exception raised
    ret,        \* the value a getter returned, -1 when none
    log,        \* register transactions of the operation, as the device saw them
    calib,      \* self._temp_calib / self._pressure_calib as a token, -1 unset
    calReads,   \* reads of CAL_DATA in the instance's lifetime (counted to 2)
    dev,        \* the device: chip, status, osr, config, ctrl, cal, pBusy, tBusy
    bus,        \* owner of the bus lock: "free" | "driver" | "other"
    lastSet     \* the value last written through each oversampling setter
                \* since the device was last reset, -1 when none

vars == <<adapter, pc, ph, req, rd, op, arg, outcome, ret, log, calib, calReads,
          dev, bus, lastSet>>

driverVars == <<adapter, pc, ph, req, rd, op, arg, outcome, ret, log, calib, calReads,
                lastSet>>

NoReq == <<"-", 0, 0>>
NoneSet == [p |-> -1, t |-> -1]

(* ------------------------------ the device ------------------------------ *)
\* Register file of the sensor as the driver's transactions see it.
DevRead(d, reg) ==
    CASE reg = REGISTER_CHIPID -> d.chip
      [] reg = REGISTER_STATUS -> d.status
      [] reg = REGISTER_OSR -> d.osr
      [] reg = REGISTER_CONFIG -> d.config
      [] reg = REGISTER_CONTROL -> d.ctrl
      [] reg = REGISTER_CAL_DATA -> d.cal
      [] OTHER -> 0
\* Reading the data registers clears the two data-ready bits.
DevAfterRead(d, reg) ==
    IF reg = REGISTER_PRESSUREDATA
    THEN [d EXCEPT !.status = BitAnd(d.status, 255 - STATUS_READY_MASK)]
    ELSE d
\* Power-on defaults: oversampling x1 for both, filter off, nothing converting.
DevDefaults(d) ==
    [d EXCEPT !.osr = 0, !.config = 0, !.ctrl = 0, !.status = 16,
              !.pBusy = FALSE, !.tBusy = FALSE]
\* A register holds the last byte written; CMD and CONTROL also act.
DevWrite(d, reg, val) ==
    CASE reg = REGISTER_OSR -> [d EXCEPT !.osr = val]
      [] reg = REGISTER_CONFIG -> [d EXCEPT !.config = val]
      [] reg = REGISTER_CONTROL ->
            IF val = CTRL_FORCED
            THEN [d EXCEPT !.ctrl = val, !.pBusy = TRUE, !.tBusy = TRUE]
            ELSE [d EXCEPT !.ctrl = val]
      [] reg = REGISTER_CMD -> IF val = CMD_SOFTRESET THEN DevDefaults(d) ELSE d
      [] OTHER -> d

\* The pressure conversion of a forced measurement completes.
DevPressureReady ==
    /\ dev.pBusy
    /\ dev' = [dev EXCEPT !.pBusy = FALSE, !.status = BitOr(dev.status, 32)]
    /\ UNCHANGED <<driverVars, bus>>
\* The temperature conversion of a forced measurement completes.
DevTemperatureReady ==
    /\ dev.tBusy
    /\ dev' = [dev EXCEPT !.tBusy = FALSE, !.status = BitOr(dev.status, 64)]
    /\ UNCHANGED <<driverVars, bus>>

(* ----------------------------- the adapters ----------------------------- *)
\* First byte the adapter puts on the wire for a register transaction.
WireAddress(a, kind, reg) ==
    IF a = "SPI"
    THEN (IF kind = "r" THEN BitOr(128, reg) ELSE BitAnd(reg, 127))
    ELSE BitAnd(reg, 255)
\* The register the device takes that byte to address.
WireRegister(a, byte) == IF a = "SPI" THEN BitAnd(byte, 127) ELSE byte

\* `with self._i2c` / `with self._spi`: entering takes the bus lock.
WithEnter(b) == "driver"
\* Leaving the with block after its body ran gives the lock back.
WithExit(b) == "free"
\* (variant: an exception skips the unlock)
WithExitOnError_keeps(b) == b
\* Leaving it by an exception raised in its body gives the lock back too.
WithExitOnError(b) == "free"

\* The adapter method is entered: it waits for the bus and takes it.
BusAcquire ==
    /\ ph = "call"
    /\ bus = "free"
    /\ bus' = WithEnter(bus)
    /\ ph' = "held"
    /\ UNCHANGED <<lastSet, adapter, pc, req, rd, op, arg, outcome, ret, log, calib,
                   calReads, dev>>

\* _read_register: address write then readinto inside the with block, which
\* is then left; the bytes read are returned to the handler.
TransferRead ==
    /\ ph = "held"
    /\ req[1] = "r"
    /\ LET reg == WireRegister(adapter, WireAddress(adapter, "r", req[2]))
       IN /\ rd' = DevRead(dev, reg)
          /\ dev' = DevAfterRead(dev, reg)
          /\ log' = Append(log, <<"r", reg, req[3]>>)
          /\ calReads' = IF reg = REGISTER_CAL_DATA /\ calReads < 2
                         THEN calReads + 1 ELSE calReads
    /\ bus' = WithExit(bus)
    /\ ph' = "ret"
    /\ UNCHANGED <<lastSet, adapter, pc, req, op, arg, outcome, ret, calib>>

\* _write_register_byte: one write of (register, value & 0xFF) inside the
\* with block, which is then left.
TransferWrite ==
    /\ ph = "held"
    /\ req[1] = "w"
    /\ LET reg == WireRegister(adapter, WireAddress(adapter, "w", req[2]))
           val == BitAnd(req[3], 255)
       IN /\ dev' = DevWrite(dev, reg, val)
          /\ log' = Append(log, <<"w", reg, val>>)
          /\ lastSet' = CASE reg = REGISTER_CMD /\ val = CMD_SOFTRESET -> NoneSet
                           [] reg = REGISTER_OSR /\ op = "set_p" -> [lastSet EXCEPT !.p = arg]
                           [] reg = REGISTER_OSR /\ op = "set_t" -> [lastSet EXCEPT !.t = arg]
                           [] OTHER -> lastSet
    /\ bus' = WithExit(bus)
    /\ ph' = "ret"
    /\ UNCHANGED <<adapter, pc, req, rd, op, arg, outcome, ret, calib, calReads>>

\* BMP3XX_SPI.__init__: chip select toggled with the bus held for 1 ms, no
\* register touched.
TransferToggle ==
    /\ ph = "held"
    /\ req[1] = "cs"
    /\ bus' = WithExit(bus)
    /\ ph' = "ret"
    /\ UNCHANGED <<lastSet, adapter, pc, req, rd, op, arg, outcome, ret, log, calib,
                   calReads, dev>>

\* A bus transfer fails: the exception leaves the with block, which releases
\* the bus, and propagates out of the public operation (nothing catches it).
TransferFail ==
    /\ ph = "held"
    /\ req[1] \in {"r", "w"}
    /\ bus' = WithExitOnError(bus)
    /\ pc' = IF op = "init" THEN "dead" ELSE "idle"
    /\ ph' = "none"
    /\ req' = NoReq
    /\ rd' = 0
    /\ outcome' = "OSError"
    /\ UNCHANGED <<lastSet, adapter, op, arg, ret, log, calib, calReads, dev>>

\* Another device's driver on the same bus takes the lock for a transaction
\* of its own, and gives it back.
OtherAcquire ==
    /\ bus = "free"
    /\ bus' = "other"
    /\ UNCHANGED <<driverVars, dev>>
OtherRelease ==
    /\ bus = "other"
    /\ bus' = "free"
    /\ UNCHANGED <<driverVars, dev>>

(* --------------------------- handler plumbing --------------------------- *)
Idle == pc = "idle" /\ ph = "none"
Returned(stage) == pc = stage /\ ph = "ret"
\* the handler calls an adapter method and will resume at `stage`
Issue(stage, r) == pc' = stage /\ ph' = "call" /\ req' = r
\* a public operation is entered
Begin(name, a) ==
    /\ op' = name
    /\ arg' = a
    /\ log' = <<>>
    /\ rd' = 0
\* a public operation returns v, or raises when o is not "ok"
Finish(o, v) ==
    /\ pc' = "idle"
    /\ ph' = "none"
    /\ req' = NoReq
    /\ outcome' = o
    /\ ret' = v
    /\ rd' = 0

(* ----------------------------- construction ----------------------------- *)
\* (variant: the reset is issued before the calibration block is read)
InitNext_resetfirst(stage, value) ==
    CASE stage = "ctor_chipid" -> IF ChipIdAccepted(value) THEN "ctor_reset" ELSE "raise"
      [] stage = "ctor_reset" -> "ctor_cal"
      [] stage = "ctor_cal" -> "return"
\* BMP3XX.__init__: what follows each of its register transactions.
InitNext(stage, value) ==
    CASE stage = "ctor_chipid" -> IF ChipIdAccepted(value) THEN "ctor_cal" ELSE "raise"
      [] stage = "ctor_cal" -> "ctor_reset"
      [] stage = "ctor_reset" -> "return"
\* the register transaction each stage of __init__ performs
InitRequest(stage) ==
    CASE stage = "ctor_chipid" -> <<"r", REGISTER_CHIPID, 1>>
      [] stage = "ctor_cal" -> <<"r", REGISTER_CAL_DATA, CAL_LENGTH>>
      [] stage = "ctor_reset" -> <<"w", REGISTER_CMD, CMD_SOFTRESET>>

\* BMP3XX_I2C(i2c): wraps the bus, then runs BMP3XX.__init__.
I2C_init ==
    /\ pc = "new"
    /\ adapter' = "I2C"
    /\ Begin("init", 0)
    /\ outcome' = "running"
    /\ Issue("ctor_chipid", InitRequest("ctor_chipid"))
    /\ UNCHANGED <<lastSet, ret, calib, calReads, dev, bus>>

\* BMP3XX_SPI(spi, cs): wraps the bus and toggles chip select first.
SPI_init ==
    /\ pc = "new"
    /\ adapter' = "SPI"
    /\ Begin("init", 0)
    /\ outcome' = "running"
    /\ Issue("ctor_toggle", <<"cs", 0, 0>>)
    /\ UNCHANGED <<lastSet, ret, calib, calReads, dev, bus>>

\* BMP3XX_SPI.__init__ after the toggle: super().__init__()
SPI_init_super ==
    /\ Returned("ctor_toggle")
    /\ Issue("ctor_chipid", InitRequest("ctor_chipid"))
    /\ UNCHANGED <<lastSet, adapter, rd, op, arg, outcome, ret, log, calib, calReads, dev, bus>>

\* BMP3XX.__init__ resumes after a register transaction.
BMP3XX_init ==
    /\ ph = "ret"
    /\ pc \in {"ctor_chipid", "ctor_cal", "ctor_reset"}
    /\ LET nxt == InitNext(pc, rd)
       IN CASE nxt = "raise" ->
                 /\ pc' = "dead" /\ ph' = "none" /\ req' = NoReq /\ rd' = 0
                 /\ outcome' = "RuntimeError"
                 /\ UNCHANGED calib
            [] nxt = "return" ->
                 /\ pc' = "idle" /\ ph' = "none" /\ req' = NoReq /\ rd' = 0
                 /\ outcome' = "ok"
                 /\ UNCHANGED calib
            [] OTHER ->
                 /\ Issue(nxt, InitRequest(nxt))
                 /\ calib' = IF pc = "ctor_cal" THEN rd ELSE calib
                 /\ rd' = 0
                 /\ UNCHANGED outcome
    /\ UNCHANGED <<lastSet, adapter, op, arg, ret, log, calReads, dev, bus>>

(* ---------------------- oversampling and filter ------------------------- *)
\* (variant: a range check instead of membership)
Legal_range(t, v) == v >= t[1] /\ v <= t[Len(t)]
\* `if oversample not in _OSR_SETTINGS` / `if coef not in _IIR_SETTINGS`
Legal(t, v) == v \in Range(t)

\* a setter is called: validate, then start its first register transaction
SetterCall(name, t, v, stage, r) ==
    /\ Idle
    /\ Begin(name, v)
    /\ IF Legal(t, v)
       THEN /\ Issue(stage, r)
            /\ outcome' = "running"
            /\ ret' = -1
       ELSE /\ pc' = "idle" /\ ph' = "none" /\ req' = NoReq
            /\ outcome' = "ValueError"
            /\ ret' = -1
    /\ UNCHANGED <<lastSet, adapter, calib, calReads, dev, bus>>

\* a getter is called: it starts by reading its register
GetterCall(name, stage, reg) ==
    /\ Idle
    /\ Begin(name, 0)
    /\ Issue(stage, <<"r", reg, 1>>)
    /\ outcome' = "running"
    /\ ret' = -1
    /\ UNCHANGED <<lastSet, adapter, calib, calReads, dev, bus>>

\* a getter looks the decoded index up in its table and returns
GetterReturn(stage, t, idx) ==
    /\ Returned(stage)
    /\ IF TupleHas(t, idx)
       THEN Finish("ok", TupleAt(t, idx))
       ELSE Finish("IndexError", -1)
    /\ UNCHANGED <<lastSet, adapter, op, arg, log, calib, calReads, dev, bus>>

\* a handler goes on to write a register
ThenWrite(stage, nxt, reg, val) ==
    /\ Returned(stage)
    /\ Issue(nxt, <<"w", reg, val>>)
    /\ rd' = 0
    /\ UNCHANGED <<lastSet, adapter, op, arg, outcome, ret, log, calib, calReads, dev, bus>>

\* a handler returns None after its last write
ThenReturn(stage) ==
    /\ Returned(stage)
    /\ Finish("ok", -1)
    /\ UNCHANGED <<lastSet, adapter, op, arg, log, calib, calReads, dev, bus>>

GetPressureOversampling == GetterCall("get_p", "getp_read", REGISTER_OSR)
GetPressureOversamplingReturn ==
    GetterReturn("getp_read", OSR_SETTINGS, PressureOsrIndex(rd))

SetPressureOversampling(S) ==
    \E v \in S :
        SetterCall("set_p", OSR_SETTINGS, v, "setp_read", <<"r", REGISTER_OSR, 1>>)
SetPressureOversamplingWrite ==
    ThenWrite("setp_read", "setp_write", REGISTER_OSR, PressureOsrMerge(rd, arg))
SetPressureOversamplingReturn == ThenReturn("setp_write")

GetTemperatureOversampling == GetterCall("get_t", "gett_read", REGISTER_OSR)
GetTemperatureOversamplingReturn ==
    GetterReturn("gett_read", OSR_SETTINGS, TemperatureOsrIndex(rd))

SetTemperatureOversampling(S) ==
    \E v \in S :
        SetterCall("set_t", OSR_SETTINGS, v, "sett_read", <<"r", REGISTER_OSR, 1>>)
SetTemperatureOversamplingWrite ==
    ThenWrite("sett_read", "sett_write", REGISTER_OSR, TemperatureOsrMerge(rd, arg))
SetTemperatureOversamplingReturn == ThenReturn("sett_write")

GetFilterCoefficient == GetterCall("get_f", "getf_read", REGISTER_CONFIG)
GetFilterCoefficientReturn ==
    GetterReturn("getf_read", IIR_SETTINGS, FilterIndex(rd))

\* the filter setter writes at once: it does not read CONFIG first
SetFilterCoefficient(S) ==
    \E v \in S :
        SetterCall("set_f", IIR_SETTINGS, v, "setf_write",
                   <<"w", REGISTER_CONFIG,
                     IF Legal(IIR_SETTINGS, v) THEN FilterByte(v) ELSE 0>>)
SetFilterCoefficientReturn == ThenReturn("setf_write")

(* -------------------------------- reset --------------------------------- *)
Reset ==
    /\ Idle
    /\ Begin("reset", 0)
    /\ Issue("reset_write", <<"w", REGISTER_CMD, CMD_SOFTRESET>>)
    /\ outcome' = "running"
    /\ ret' = -1
    /\ UNCHANGED <<lastSet, adapter, calib, calReads, dev, bus>>
ResetReturn == ThenReturn("reset_write")

(* ----------------------------- measurement ------------------------------ *)
Measurements == {"pressure", "temperature", "altitude"}
StatusReads(l) ==
    Cardinality({i \in 1..Len(l) : l[i][1] = "r" /\ l[i][2] = REGISTER_STATUS})

\* pressure, temperature, altitude: each runs _read once, which starts by
\* putting the device in forced mode.
Measure ==
    \E m \in Measurements :
        /\ Idle
        /\ Begin(m, 0)
        /\ Issue("meas_ctrl", <<"w", REGISTER_CONTROL, CTRL_FORCED>>)
        /\ outcome' = "running"
        /\ ret' = -1
        /\ UNCHANGED <<lastSet, adapter, calib, calReads, dev, bus>>

\* _read: what follows each register transaction
\* ("meas_poll" again after time.sleep(self._wait_time) while not both ready)
ReadNext(stage, value) ==
    CASE stage = "meas_ctrl" -> "meas_poll"
      [] stage = "meas_poll" ->
            IF ConversionsComplete(value) THEN "meas_data" ELSE "meas_poll"
      [] stage = "meas_data" -> "return"
ReadRequest(stage) ==
    CASE stage = "meas_poll" -> <<"r", REGISTER_STATUS, 1>>
      [] stage = "meas_data" -> <<"r", REGISTER_PRESSUREDATA, DATA_LENGTH>>

\* _read resumes after a register transaction.  Polls that will find the
\* device not ready are explored up to MaxPolls per measurement.
MeasureStep ==
    /\ ph = "ret"
    /\ pc \in {"meas_ctrl", "meas_poll", "meas_data"}
    /\ LET nxt == ReadNext(pc, rd)
       IN IF nxt = "return"
          THEN Finish("ok", 0)
          ELSE /\ nxt = "meas_poll" =>
                     (StatusReads(log) < MaxPolls \/ ConversionsComplete(dev.status))
               /\ Issue(nxt, ReadRequest(nxt))
               /\ rd' = 0
               /\ UNCHANGED <<lastSet, outcome, ret>>
    /\ UNCHANGED <<lastSet, adapter, op, arg, log, calib, calReads, dev, bus>>

(* --------------------------- specifications ----------------------------- *)
ChipIds == {BMP388_CHIP_ID, BMP390_CHIP_ID, 0, 255}
StatusBytes == {16, 48, 80, 112}
\* setter arguments: every legal value and some illegal ones
OsrArgs == Range(OSR_SETTINGS) \cup {0, 3, 64}
IirArgs == Range(IIR_SETTINGS) \cup {1, 3, 256}
\* a few of them, for the specifications that explore whole lifetimes
SomeOsrArgs == {1, 8, 32, 3}
SomeIirArgs == {0, 128, 1}

Fresh ==
    /\ adapter = "none" /\ pc = "new" /\ ph = "none" /\ req = NoReq /\ rd = 0
    /\ op = "none" /\ arg = 0 /\ outcome = "none" /\ ret = -1 /\ log = <<>>
    /\ calib = -1 /\ calReads = 0 /\ bus = "free" /\ lastSet = NoneSet

\* An instance is about to be constructed on a device in some state.
Init ==
    /\ Fresh
    /\ dev \in [chip : ChipIds, status : StatusBytes, osr : {0, 45, 255},
                config : {0, 255}, ctrl : {0}, cal : {1},
                pBusy : {FALSE}, tBusy : {FALSE}]

Adapter == BusAcquire \/ TransferRead \/ TransferWrite
Construction == I2C_init \/ SPI_init \/ TransferToggle \/ SPI_init_super \/ BMP3XX_init
OsrOps(S) ==
    \/ GetPressureOversampling \/ GetPressureOversamplingReturn
    \/ SetPressureOversampling(S) \/ SetPressureOversamplingWrite
    \/ SetPressureOversamplingReturn
    \/ GetTemperatureOversampling \/ GetTemperatureOversamplingReturn
    \/ SetTemperatureOversampling(S) \/ SetTemperatureOversamplingWrite
    \/ SetTemperatureOversamplingReturn
FilterOps(S) ==
    \/ GetFilterCoefficient \/ GetFilterCoefficientReturn
    \/ SetFilterCoefficient(S) \/ SetFilterCoefficientReturn
Measuring == Measure \/ MeasureStep \/ DevPressureReady \/ DevTemperatureReady

Next ==
    \/ Construction \/ Adapter \/ OsrOps(OsrArgs) \/ FilterOps(SomeIirArgs)
    \/ Reset \/ ResetReturn \/ Measuring

Spec == Init /\ [][Next]_vars

(* Registers that other software or an earlier program left in any state:   *)
(* an instance already constructed, on a device whose OSR or CONFIG register *)
(* holds any byte.  One register ranges over all 256 bytes while the other   *)
(* rests at 0, and an operation is called on a register only while the other *)
(* rests (no handler reads or writes both registers).                        *)
Constructed ==
    /\ adapter \in {"I2C", "SPI"} /\ pc = "idle" /\ ph = "none" /\ req = NoReq
    /\ rd = 0 /\ op = "init" /\ arg = 0 /\ outcome = "ok" /\ ret = -1
    /\ log = <<InitRequest("ctor_chipid"), InitRequest("ctor_cal"),
               InitRequest("ctor_reset")>>
    /\ calib = 1 /\ calReads = 1 /\ bus = "free" /\ lastSet = NoneSet

InitRegs ==
    /\ Constructed
    /\ \E o \in 0..255, c \in 0..255 :
        /\ o = 0 \/ c = 0
        /\ dev = [chip |-> BMP388_CHIP_ID, status |-> 16, osr |-> o, config |-> c,
                  ctrl |-> 0, cal |-> 1, pBusy |-> FALSE, tBusy |-> FALSE]

NextRegs ==
    \/ Adapter
    \/ dev.config = 0 /\ GetPressureOversampling
    \/ dev.config = 0 /\ SetPressureOversampling(OsrArgs)
    \/ dev.config = 0 /\ GetTemperatureOversampling
    \/ dev.config = 0 /\ SetTemperatureOversampling(OsrArgs)
    \/ dev.osr = 0 /\ GetFilterCoefficient
    \/ dev.osr = 0 /\ SetFilterCoefficient(IirArgs)
    \/ GetPressureOversamplingReturn \/ GetTemperatureOversamplingReturn
    \/ GetFilterCoefficientReturn
    \/ SetPressureOversamplingWrite \/ SetPressureOversamplingReturn
    \/ SetTemperatureOversamplingWrite \/ SetTemperatureOversamplingReturn
    \/ SetFilterCoefficientReturn

SpecRegs == InitRegs /\ [][NextRegs]_vars

(* Measurements only, on a constructed instance, with the driver's thread   *)
(* scheduled fairly: a blocking call that can take a step eventually takes   *)
(* it.  Nothing obliges the device to finish a conversion, nor the caller    *)
(* to ask for another measurement.                                           *)
InitFair ==
    /\ Constructed
    /\ dev \in [chip : {BMP388_CHIP_ID, BMP390_CHIP_ID}, status : StatusBytes,
                osr : {0}, config : {0}, ctrl : {0}, cal : {1},
                pBusy : {FALSE}, tBusy : {FALSE}]

NextFair == Adapter \/ Measuring

SpecFair == InitFair /\ [][NextFair]_vars /\ WF_vars(Adapter \/ MeasureStep)

(* Whole lifetimes on a bus shared with another device's driver, where any   *)
(* transfer may fail.                                                        *)
NextBus ==
    \/ Construction \/ Adapter \/ OsrOps(SomeOsrArgs) \/ FilterOps(SomeIirArgs)
    \/ Reset \/ ResetReturn \/ Measuring
    \/ TransferFail \/ OtherAcquire \/ OtherRelease

InitBus ==
    /\ Fresh
    /\ dev \in [chip : {BMP390_CHIP_ID, 0}, status : {16, 112}, osr : {45},
                config : {0}, ctrl : {0}, cal : {1}, pBusy : {FALSE}, tBusy : {FALSE}]

SpecBus == InitBus /\ [][NextBus]_vars

(* ------------------------------- claims --------------------------------- *)
OsrLegal == {1, 2, 4, 8, 16, 32}
IirLegal == {0, 2, 4, 8, 16, 32, 64, 128}
\* what a getter called now would return (-1: it would raise IndexError)
WouldReturn(t, idx) == IF TupleHas(t, idx) THEN TupleAt(t, idx) ELSE -1
PressureNow(d) == WouldReturn(OSR_SETTINGS, PressureOsrIndex(d.osr))
TemperatureNow(d) == WouldReturn(OSR_SETTINGS, TemperatureOsrIndex(d.osr))
FilterNow(d) == WouldReturn(IIR_SETTINGS, FilterIndex(d.config))
SetterDone(name) == Idle /\ op = name /\ outcome = "ok"
GetterDone(name) == Idle /\ op = name /\ outcome = "ok"
\* the step in which the running operation's register write reaches the device
WriteLands == ph = "held" /\ req[1] = "w" /\ ph' = "ret"
Position(table, v) == CHOOSE i \in 0..7 : i < Len(table) /\ table[i + 1] = v

\* C1: a legal value set through pressure_oversampling, temperature_oversampling
\* or filter_coefficient is accepted and is what the property reads back right
\* after the setter returns, whatever byte the register held before; and a
\* getter returns what its register decodes to.
C1_RoundTrip ==
    /\ op = "set_p" /\ arg \in OsrLegal => outcome \in {"running", "ok"}
    /\ op = "set_t" /\ arg \in OsrLegal => outcome \in {"running", "ok"}
    /\ op = "set_f" /\ arg \in IirLegal => outcome \in {"running", "ok"}
    /\ SetterDone("set_p") => PressureNow(dev) = arg
    /\ SetterDone("set_t") => TemperatureNow(dev) = arg
    /\ SetterDone("set_f") => FilterNow(dev) = arg
    /\ GetterDone("get_p") => ret = PressureNow(dev)
    /\ GetterDone("get_t") => ret = TemperatureNow(dev)
    /\ GetterDone("get_f") => ret = FilterNow(dev)
\* pressure oversampling 32 set on a register that held 1s in every other bit
C1_Witness == SetterDone("set_p") /\ arg = 32 /\ dev.osr = 253

C2_FrameStep ==
    /\ op' = "set_p" => BitAnd(dev'.osr, 56) = BitAnd(dev.osr, 56)
    /\ op' = "set_t" => BitAnd(dev'.osr, 7) = BitAnd(dev.osr, 7)
C2_LastSet ==
    /\ Idle /\ op = "get_p" /\ lastSet.p # -1 => outcome = "ok" /\ ret = lastSet.p
    /\ Idle /\ op = "get_t" /\ lastSet.t # -1 => outcome = "ok" /\ ret = lastSet.t
\* C2: no step of the pressure setter changes bits [5:3] of OSR, no step of the
\* temperature setter changes bits [2:0]; and each oversampling getter returns
\* the value last set through its own setter.
C2_Independent == [][C2_FrameStep]_vars /\ []C2_LastSet
\* both have been set, to different values, and the pressure getter returns its own
C2_Witness ==
    GetterDone("get_p") /\ ret = 32 /\ lastSet = [p |-> 32, t |-> 16] /\ dev.osr = 229

C3_MergeStep ==
    (op = "set_f" /\ WriteLands) =>
        /\ BitAnd(Shr(dev'.config, 1), 7) = Position(IIR_SETTINGS, arg)
        /\ BitAnd(dev'.config, 241) = BitAnd(dev.config, 241)
\* C3 as claimed: the filter setter's write puts the table index in bits [3:1]
\* of CONFIG and keeps every bit outside bits [3:1] as it was before the call.
C3_Original == [][C3_MergeStep]_vars
C3_OverwriteStep ==
    (op = "set_f" /\ WriteLands) =>
        /\ BitAnd(Shr(dev'.config, 1), 7) = Position(IIR_SETTINGS, arg)
        /\ BitAnd(dev'.config, 241) = 0
        /\ log' = <<<<"w", REGISTER_CONFIG, dev'.config>>>>
\* C3 amended: the filter setter makes one register transaction, a write to
\* CONFIG (which it never reads) of a byte with the table index in bits [3:1]
\* and 0 in every other bit, whatever CONFIG held before.
C3_Overwrites == [][C3_OverwriteStep]_vars
\* coefficient 128 (index 7) has been written
C3_Witness == SetterDone("set_f") /\ arg = 128 /\ dev.config = 14 /\ Len(log) = 1

C4_Illegal ==
    \/ op \in {"set_p", "set_t"} /\ arg \notin OsrLegal
    \/ op = "set_f" /\ arg \notin IirLegal
C4_Raises ==
    /\ C4_Illegal => Idle /\ outcome = "ValueError" /\ log = <<>>
    /\ outcome = "ValueError" => C4_Illegal
C4_RejectStep ==
    C4_Illegal' =>
        /\ dev' = dev
        /\ bus' = bus
        /\ PressureNow(dev') = PressureNow(dev)
        /\ TemperatureNow(dev') = TemperatureNow(dev)
        /\ FilterNow(dev') = FilterNow(dev)
\* C4: a setter called with a value outside its legal set raises ValueError
\* with no register transaction made; the step changes no device register, so
\* every getter would return what it returned before.
C4_Rejected == []C4_Raises /\ [][C4_RejectStep]_vars
\* temperature oversampling 64 refused on a register holding 0xFF
C4_Witness == Idle /\ op = "set_t" /\ arg = 64 /\ outcome = "ValueError" /\ dev.osr = 255

CtorStages == {"ctor_toggle", "ctor_chipid", "ctor_cal", "ctor_reset"}
ReadChipId == <<"r", 0, 1>>
ReadCalData == <<"r", 49, 21>>
WriteSoftReset == <<"w", 126, 182>>
WriteForced == <<"w", 27, 19>>
ReadStatus == <<"r", 3, 1>>
ReadData == <<"r", 4, 6>>
IsPrefix(a, b) == Len(a) <= Len(b) /\ \A i \in 1..Len(a) : a[i] = b[i]

\* C5: construction fails exactly when the CHIP_ID byte is neither 0x50 nor
\* 0x60, and then with RuntimeError after the single CHIP_ID read: no retry,
\* no calibration read, no register write.  (The transport does not fail.)
C5_Identity ==
    /\ pc = "dead" =>
          /\ dev.chip \notin {80, 96}
          /\ outcome = "RuntimeError"
          /\ log = <<ReadChipId>>
          /\ calReads = 0 /\ calib = -1
    /\ dev.chip \notin {80, 96} =>
          /\ pc \in {"new", "ctor_toggle", "ctor_chipid", "dead"}
          /\ IsPrefix(log, <<ReadChipId>>)
    /\ dev.chip \in {80, 96} => pc # "dead" /\ outcome # "RuntimeError"
    /\ (pc = "ctor_chipid" /\ ph = "ret") => rd = dev.chip
\* an SPI instance refused on a device answering 0xFF
C5_Witness == pc = "dead" /\ dev.chip = 255 /\ adapter = "SPI"

\* C6: construction reads CHIP_ID, then the 21 bytes at CAL_DATA, then writes
\* 0xB6 to CMD; afterwards CAL_DATA has been read exactly once, the stored
\* coefficients are those read, and no public operation reads CAL_DATA.
C6_Calibration ==
    /\ op = "init" => IsPrefix(log, <<ReadChipId, ReadCalData, WriteSoftReset>>)
    /\ (Idle /\ op = "init") => log = <<ReadChipId, ReadCalData, WriteSoftReset>>
    /\ pc \notin (CtorStages \cup {"new", "dead"}) => calReads = 1 /\ calib = dev.cal
    /\ op \notin {"none", "init"} => \A i \in 1..Len(log) : log[i][2] # 49
\* a measurement has been made after construction
C6_Witness == Idle /\ op = "altitude" /\ outcome = "ok" /\ calReads = 1 /\ calib = 1

C7_Shape(l) ==
    /\ Len(l) >= 1 => l[1] = WriteForced
    /\ \A i \in 2..Len(l) : l[i] = ReadStatus \/ (i = Len(l) /\ i >= 3 /\ l[i] = ReadData)
C7_Log ==
    /\ op \in Measurements => C7_Shape(log)
    /\ (op \in Measurements /\ Idle) =>
          outcome = "ok" /\ Len(log) >= 3 /\ log[Len(log)] = ReadData
    /\ (op \in Measurements /\ ~Idle /\ pc # "meas_data") =>
          \A i \in 1..Len(log) : log[i] # ReadData
C7_DataStep ==
    (pc' = "meas_data" /\ pc # "meas_data") =>
        pc = "meas_poll" /\ ph = "ret" /\ rd % 128 >= 96
\* C7: a measurement (pressure, temperature, altitude) makes the transactions
\* write 0x13 to CONTROL, one or more reads of STATUS, one 6-byte read at
\* PRESSURE_DATA, in this order and nothing else; the data read is issued only
\* on a STATUS byte with both ready bits set.
C7_ForcedRead == []C7_Log /\ [][C7_DataStep]_vars
\* an altitude read that polled STATUS more than once
C7_Witness == Idle /\ op = "altitude" /\ outcome = "ok" /\ Len(log) >= 4

C8_InMeasurement == op \in Measurements /\ outcome = "running"
C8_Returns ==
    (C8_InMeasurement /\ dev.status % 128 >= 96) ~> (Idle /\ outcome = "ok")
C8_NotReadyStep ==
    (pc = "meas_poll" /\ ph = "ret" /\ rd % 128 < 96) =>
        pc' = "meas_poll" /\ outcome' = "running" /\ ph' \in {"ret", "call"}
C8_Outcome == op \in Measurements => outcome \in {"running", "ok"}
\* C8: once STATUS shows both ready bits during a measurement the measurement
\* returns; after a poll that did not show both, the driver only polls again:
\* it neither returns nor raises, however many polls were made.
C8_Unbounded == C8_Returns /\ [][C8_NotReadyStep]_vars /\ []C8_Outcome
\* the last poll explored found the device not ready and nothing was raised
C8_Witness ==
    /\ pc = "meas_poll" /\ ph = "ret" /\ rd % 128 < 96
    /\ StatusReads(log) = MaxPolls /\ outcome = "running"

C9_Held == bus = "driver" <=> ph = "held"
C9_TransactionStep ==
    /\ (log' # log /\ log' # <<>>) => bus = "driver" /\ bus' = "free"
    /\ dev' # dev => (bus = "driver" \/ driverVars' = driverVars)
\* C9: the driver holds the bus exactly while an adapter method is inside its
\* with block: every register transaction happens with the bus held by the
\* driver, and the bus is not the driver's between transactions nor after an
\* operation ended, by return or by a failed transfer.
C9_Bus == []C9_Held /\ [][C9_TransactionStep]_vars
\* a setter's write failed after its read, and the other user has the bus
C9_Witness ==
    op = "set_p" /\ outcome = "OSError" /\ Len(log) = 1 /\ Idle /\ bus = "other"

C10_Valid(osr) == osr % 8 <= 5 /\ (osr \div 8) % 8 <= 5
C10_Step == C10_Valid(dev.osr) => C10_Valid(dev'.osr)
C10_Getters ==
    (C10_Valid(dev.osr) /\ Idle /\ op \in {"get_p", "get_t"}) =>
        outcome = "ok" /\ ret \in OsrLegal
\* C10: no step takes OSR from two table indexes (0..5 in bits [2:0] and in
\* bits [5:3]) to a byte with 6 or 7 in either field, and with such a byte the
\* oversampling getters return a member of {1,2,4,8,16,32}.
C10_IndexInTable == [][C10_Step]_vars /\ []C10_Getters
\* both fields at index 5, read back through the temperature getter
C10_Witness == GetterDone("get_t") /\ ret = 32 /\ dev.osr = 45 /\ lastSet.p = 32

=============================================================================
